---- MODULE Spec2Model ----
(***************************************************************************)
(* Subtask / timer consistency model of the task-management application.   *)
(*                                                                         *)
(*   TaskDetailsModal.tsx : Subtask Store Controller + Status Inference    *)
(*   SubtaskTimer.tsx     : Timer Guard                                    *)
(*   fix_timer_collision.sql : partial unique index on open time logs      *)
(*                                                                         *)
(* Every handler is one action up to its first await; the continuation     *)
(* after the await (confirmation or rollback) is a second action that      *)
(* takes the in-flight call out of `pending`.                              *)
(***************************************************************************)
EXTENDS Integers, Sequences, FiniteSets, TLC

\* ------------------------------------------------------------------ bounds
\* number of handler invocations (add / toggle / delete / rename / select)
MaxOps == 2
\* longest subtask list handed to checkAutoStatusUpdate on its own
MaxItems == 3
\* number of start / stop invocations over all sessions
MaxTimerOps == 2
\* number of clock advances
MaxTicks == 1
\* rows of subtask_time_logs in a store whose totals are displayed
MaxLogs == 2

\* ------------------------------------------------------------------ state
VARIABLES
    subtasks,     \* useState<Subtask[]>       (TaskDetailsModal.tsx:27)
    progress,     \* useState(0)               (TaskDetailsModal.tsx:30)
    statuses,     \* useState<any[]>           (TaskDetailsModal.tsx:29)
    taskStatus,   \* task.status_id of the `task` prop
    db,           \* rows of public.subtasks for the task, by created_at
    dbStatus,     \* tasks.status_id in the store
    dbStatuses,   \* rows of task_statuses for the department, by position
    pending,      \* remote calls in flight (awaited promises)
    nops,         \* handler invocations so far
    refreshDue,   \* onUpdate() was called and the parent has not re-rendered
    last,         \* history: what the last step did
    chosen,       \* history: the status picked in the <select> that the store holds, if so
    \* --- SubtaskTimer.tsx, one component instance per session of the user
    activeTimer,  \* useState<{id, subtaskName, startTime} | null>  (SubtaskTimer.tsx:32)
    loading,      \* useState(false)                                (SubtaskTimer.tsx:35)
    logs,         \* rows of subtask_time_logs for the task
    tpending,     \* timer calls in flight
    now,          \* wall clock, milliseconds
    ticks,        \* clock advances so far
    tops,         \* start / stop invocations so far
    tlast,        \* history: what the last timer step did
    timeLogs,     \* useState<SubtaskTimeLog[]>  (SubtaskTimer.tsx:34), of session s1
    shown         \* what the list of session s1 renders: per subtask, active and time

svars == <<subtasks, progress, statuses, taskStatus, db, dbStatus, dbStatuses,
           pending, nops, refreshDue, last, chosen>>
tvars == <<activeTimer, loading, logs, tpending, now, ticks, tops, tlast>>
dvars == <<timeLogs, shown>>
vars == <<svars, tvars, dvars>>

\* "no status" (undefined targetStatusId / newStatusId)
None == 0

\* ------------------------------------------------------- status labels
\* A label is a sequence of characters, so that the regular expressions of
\* checkAutoStatusUpdate are evaluated on the text, not assumed.
UpperCase == <<"A","B","C","D","E","F","G","H","I","J","K","L","M","N","O","P","Q","R","S","T","U","V","W","X","Y","Z">>
LowerCase == <<"a","b","c","d","e","f","g","h","i","j","k","l","m","n","o","p","q","r","s","t","u","v","w","x","y","z">>

\* the /i flag: compare case-insensitively
ToLower(c) ==
    IF \E i \in DOMAIN UpperCase : UpperCase[i] = c
    THEN LowerCase[CHOOSE i \in DOMAIN UpperCase : UpperCase[i] = c]
    ELSE c

LowerLabel(label) == [i \in DOMAIN label |-> ToLower(label[i])]

\* an unanchored match of a literal word somewhere in the label
Contains(label, word) ==
    \E i \in 1..(Len(label) - Len(word) + 1) :
        SubSeq(LowerLabel(label), i, i + Len(word) - 1) = word

\* \s of the regular expression (the whitespace the labels can hold)
WhiteSpace == {" ", "\t"}

\* to\s?do
ToDoWords ==
    { <<"t","o","d","o">> } \cup { <<"t","o",w,"d","o">> : w \in WhiteSpace }

NotStartedWords ==
    ToDoWords \cup
    { <<"b","a","c","k","l","o","g">>,
      <<"p","e","n","d","i","n","g">>,
      <<"o","p","e","n">>,
      <<"n","o","t"," ","s","t","a","r","t","e","d">> }

InProgressWords ==
    { <<"p","r","o","g","r","e","s","s">>,
      <<"r","e","v","i","e","w">>,
      <<"d","o","i","n","g">>,
      <<"w","o","r","k","i","n","g">> }

DoneWords ==
    { <<"d","o","n","e">>,
      <<"c","o","m","p","l","e","t","e">>,
      <<"r","e","s","o","l","v","e","d">>,
      <<"c","l","o","s","e","d">>,
      <<"f","i","n","i","s","h">> }

\* regex.test(s.label)
Test(words, label) == \E w \in words : Contains(label, w)

\* mutant of FindFirst: the last match instead of the first
FindLast(sts, words) ==
    LET hits == {i \in DOMAIN sts : Test(words, sts[i].label)}
    IN  IF hits = {} THEN None
        ELSE sts[CHOOSE i \in hits : \A j \in hits : i >= j].id

\* statuses.find(s => regex.test(s.label)): the first match, or nothing
FindFirst(sts, words) ==
    LET hits == {i \in DOMAIN sts : Test(words, sts[i].label)}
    IN  IF hits = {} THEN None
        ELSE sts[CHOOSE i \in hits : \A j \in hits : i <= j].id

LblToDo == <<"T","o"," ","D","o">>
LblInProgress == <<"I","n"," ","P","r","o","g","r","e","s","s">>
LblDone == <<"D","o","n","e">>
LblBacklog == <<"B","a","c","k","l","o","g">>
LblClosed == <<"C","l","o","s","e","d">>
LblQA == <<"Q","A">>
LblReview == <<"R","e","v","i","e","w">>
LblOpen == <<"O","P","E","N">>
LblPendingReview == <<"P","e","n","d","i","n","g"," ","R","e","v","i","e","w">>

Status(id, label) == [id |-> id, label |-> label]

StdStatuses == <<Status(1, LblToDo), Status(2, LblInProgress), Status(3, LblDone)>>
\* no label of the in-progress class
GapStatuses == <<Status(1, LblBacklog), Status(2, LblQA), Status(3, LblClosed)>>

\* two labels of each class, and one of none
DupStatuses ==
    <<Status(1, LblQA), Status(2, LblOpen), Status(3, LblToDo), Status(4, LblReview),
      Status(5, LblInProgress), Status(6, LblClosed), Status(7, LblDone)>>

\* a label that holds a word of two classes
MixedStatuses == <<Status(1, LblPendingReview), Status(2, LblDone)>>

StatusSets == {StdStatuses, GapStatuses, DupStatuses, MixedStatuses}

\* the status lists the model can load (none before loadStatuses delivers)
StatusLists == StatusSets \cup {<<>>}

\* FindFirst for the three regular expressions, evaluated once per status list
FindTable ==
    [sts \in StatusLists |->
        [notStarted |-> FindFirst(sts, NotStartedWords),
         inProgress |-> FindFirst(sts, InProgressWords),
         done       |-> FindFirst(sts, DoneWords)]]

\* ------------------------------------------------------- pure helpers
\* items.filter(t => t.is_completed).length
CompletedCount(items) == Cardinality({i \in DOMAIN items : items[i].is_completed})

\* Math.round((completed / items.length) * 100); Math.round rounds half up.
\* (exact for the list lengths of the model: a half only arises when the
\* length is a multiple of 8)
RoundPercent(completed, total) == (200 * completed + total) \div (2 * total)

\* calculateProgress: the value handed to setProgress
calculateProgress(items) ==
    IF Len(items) = 0 THEN 0
    ELSE RoundPercent(CompletedCount(items), Len(items))

\* mutant of checkAutoStatusUpdate: without the `total === 0` return
InferOnEmpty(items, sts, cur) ==
    LET total     == Len(items)
        completed == CompletedCount(items)
        target    == IF completed = 0 THEN FindTable[sts].notStarted
                     ELSE IF completed = total THEN FindTable[sts].done
                     ELSE FindTable[sts].inProgress
    IN  IF target # None /\ cur # target THEN target ELSE None

\* checkAutoStatusUpdate: the status id handed to handleUpdateStatus, or None.
\* `sts` and `cur` are the statuses and task.status_id of the closure.
checkAutoStatusUpdate(items, sts, cur) ==
    LET total     == Len(items)
        completed == CompletedCount(items)
        target    == IF completed = 0 THEN FindTable[sts].notStarted
                     ELSE IF completed = total THEN FindTable[sts].done
                     ELSE FindTable[sts].inProgress
    IN  IF total > 0 /\ target # None /\ cur # target THEN target ELSE None

\* ------------------------------------------------------- list helpers
Subtask(id, title, done) == [id |-> id, title |-> title, is_completed |-> done]

IdsOf(items) == {items[i].id : i \in DOMAIN items}

\* items.find(t => t.id === id), as a list of zero or one entries
FindById(items, id) ==
    LET hits == {i \in DOMAIN items : items[i].id = id}
    IN  IF hits = {} THEN <<>>
        ELSE <<items[CHOOSE i \in hits : \A j \in hits : i <= j]>>

\* mutant of FilterOut: drops the last entry, whatever its id
DropLast(items, id) == SubSeq(items, 1, Len(items) - 1)

\* items.filter(t => t.id !== id)
FilterOut(items, id) == SelectSeq(items, LAMBDA t : t.id # id)


\* mutant of MapCompleted: an id that is not in the list gets an entry
UpsertCompleted(items, id, v) ==
    IF \E i \in DOMAIN items : items[i].id = id
    THEN [i \in DOMAIN items |->
             IF items[i].id = id THEN [items[i] EXCEPT !.is_completed = v] ELSE items[i]]
    ELSE Append(items, [id |-> id, title |-> "", is_completed |-> v])

\* items.map(t => t.id === id ? { ...t, is_completed: v } : t)
MapCompleted(items, id, v) ==
    [i \in DOMAIN items |->
        IF items[i].id = id THEN [items[i] EXCEPT !.is_completed = v] ELSE items[i]]

\* items.map(t => t.id === id ? { ...t, title: text } : t)
MapTitle(items, id, text) ==
    [i \in DOMAIN items |->
        IF items[i].id = id THEN [items[i] EXCEPT !.title = text] ELSE items[i]]

\* mutant of Reappend: puts the entity back in front
Prepend(prev, deletedTask) == deletedTask \o prev

\* [...prev, deletedTask], deletedTask a list of zero or one entries
Reappend(prev, deletedTask) == prev \o deletedTask

\* mutant of MapReplace: takes the confirmed fields but keeps the temporary id
MapKeepId(items, tempId, data) ==
    [i \in DOMAIN items |->
        IF items[i].id = tempId THEN [data EXCEPT !.id = tempId] ELSE items[i]]

\* prev.map(t => t.id === tempId ? data : t)
MapReplace(items, tempId, data) ==
    [i \in DOMAIN items |-> IF items[i].id = tempId THEN data ELSE items[i]]

\* ------------------------------------------------------- in-flight calls
NoOp ==
    [kind |-> "none", n |-> 0, id |-> 0, text |-> "", val |-> FALSE,
     list |-> <<>>, ent |-> <<>>, cst |-> None, csts |-> <<>>]

Calls(kind) == {c \in pending : c.kind = kind}

\* A call in flight is told from an identical one (same handler, same
\* arguments) by `n`, the least number no identical call in flight has.
Numbered(c) ==
    [c EXCEPT !.n = CHOOSE k \in 1..(MaxOps + 1) :
                        /\ [c EXCEPT !.n = k] \notin pending
                        /\ \A j \in 1..(k - 1) : [c EXCEPT !.n = j] \in pending]

\* supabase.from('tasks').update({ status_id }) issued by handleUpdateStatus
StatusCall(statusId) == Numbered([NoOp EXCEPT !.kind = "status", !.id = statusId])

\* handleUpdateStatus(newStatusId) when checkAutoStatusUpdate found one
PushOf(statusId) == IF statusId = None THEN {} ELSE {StatusCall(statusId)}

\* ------------------------------------------------------- identifiers
\* every id some live value still refers to
UsedIds ==
    IdsOf(subtasks) \cup IdsOf(db) \cup
    UNION { {c.id} \cup IdsOf(c.ent) \cup IdsOf(c.list) : c \in pending }

\* crypto.randomUUID(): a fresh client id, never a store id (negative here,
\* store ids are positive); the least one nothing refers to
TempId ==
    0 - (CHOOSE k \in 1..(MaxOps + 1) :
            /\ (0 - k) \notin UsedIds
            /\ \A j \in 1..(k - 1) : (0 - j) \in UsedIds)

\* gen_random_uuid() of the store: a fresh id for the inserted row
ServerId ==
    100 + (CHOOSE k \in 1..(MaxOps + 1) :
            /\ (100 + k) \notin UsedIds
            /\ \A j \in 1..(k - 1) : (100 + j) \in UsedIds)

\* ------------------------------------------------------- history
NoEvent ==
    [kind |-> "init", id |-> 0, text |-> "", val |-> FALSE, before |-> <<>>,
     quiet |-> FALSE, ent |-> <<>>, infer |-> FALSE, items |-> <<>>,
     sts |-> <<>>, prop |-> None, stored |-> None, pushed |-> None]

\* the part of an event that records a run of checkAutoStatusUpdate
Inferred(ev, items, sts, cur) ==
    [ev EXCEPT !.infer = TRUE, !.items = items, !.sts = sts, !.prop = cur,
               !.stored = dbStatus,
               !.pushed = checkAutoStatusUpdate(items, sts, cur)]

\* ======================================================= Timer Guard
\* Two sessions (component instances) of the one signed-in user on one task.
Sessions == {"s1", "s2"}
User == "u"

\* subtask titles a timer is started on
TimerNames == {"a", "b"}

\* one advance of the clock, in milliseconds
TickSteps == {65500}

\* a nullable column or state is a list of zero or one values
Null == <<>>
Some(v) == <<v>>

\* a row of subtask_time_logs as handleStartTimer inserts it.  start_time is
\* startTime.toISOString(): the instant to the millisecond, which is what
\* new Date(data.start_time) reads back.
TimeLog(id, name, startTime) ==
    [id |-> id, user_id |-> User, subtask_name |-> name, start_time |-> startTime,
     end_time |-> Null, duration_seconds |-> Null]

\* indexes of the rows .eq('user_id', user).is('end_time', null) selects
OpenRows(rows, user) ==
    {i \in DOMAIN rows : rows[i].user_id = user /\ rows[i].end_time = Null}

\* mutant of UniqueViolation: the index is missing
NoIndex(rows, user) == FALSE

\* idx_unique_active_timer_per_task_user: an insert of a row with end_time
\* null is rejected (23505) when the (task, user) has such a row already
UniqueViolation(rows, user) == OpenRows(rows, user) # {}

\* mutant of FindOpen: the query finds nothing
FindNothing(rows, user) == Null

\* loadActiveTimer's query, .maybeSingle(): the open row or nothing
FindOpen(rows, user) ==
    IF OpenRows(rows, user) = {} THEN Null
    ELSE Some(rows[CHOOSE i \in OpenRows(rows, user) : TRUE])

\* the update of handleStopTimer: .update({ end_time, duration_seconds }).eq('id', id)
CloseRow(rows, id, endTime, durationSeconds) ==
    [i \in DOMAIN rows |->
        IF rows[i].id = id
        THEN [rows[i] EXCEPT !.end_time = Some(endTime),
                             !.duration_seconds = Some(durationSeconds)]
        ELSE rows[i]]

\* mutant of DurationSeconds: the difference in milliseconds
DurationMillis(startTime, endTime) == endTime - startTime

\* mutant of DurationSeconds: Math.round instead of Math.floor
DurationRounded(startTime, endTime) == (endTime - startTime + 500) \div 1000

\* Math.floor((endTime.getTime() - startTime.getTime()) / 1000)
DurationSeconds(startTime, endTime) == (endTime - startTime) \div 1000

\* mutant of Active: the start time is the moment of adoption
ActiveFromNow(id, name, startTime) == Some([id |-> id, subtaskName |-> name, startTime |-> now])

\* setActiveTimer({ id, subtaskName, startTime })
Active(id, name, startTime) == Some([id |-> id, subtaskName |-> name, startTime |-> startTime])

NoCall ==
    [kind |-> "none", n |-> 0, s |-> "", name |-> "", id |-> 0, start |-> 0,
     end |-> 0, dur |-> 0, after |-> ""]

\* identical calls in flight are told apart by `n`
TNumbered(c) ==
    [c EXCEPT !.n = CHOOSE k \in 1..(MaxTimerOps + 1) :
                        /\ [c EXCEPT !.n = k] \notin tpending
                        /\ \A j \in 1..(k - 1) : [c EXCEPT !.n = j] \in tpending]

\* loadActiveTimer() called from the mount effect, the conflict branch or stop
LoadActiveCall(s, after) == [NoCall EXCEPT !.kind = "loadActive", !.s = s, !.after = after]

NoTimerEvent ==
    [kind |-> "init", s |-> "", signal |-> "none", issued |-> FALSE, after |-> "",
     prev |-> Null, open |-> Null, rows |-> 0, id |-> 0]

\* handleStartTimer, activeTimer is null: the insert is sent
StartTimer(s, name) ==
    /\ tops < MaxTimerOps
    /\ activeTimer[s] = Null
    /\ loading' = [loading EXCEPT ![s] = TRUE]
    /\ tpending' = tpending \cup
          { TNumbered([NoCall EXCEPT !.kind = "insert", !.s = s, !.name = name,
                                     !.start = now]) }
    /\ tops' = tops + 1
    /\ tlast' = [NoTimerEvent EXCEPT !.kind = "start", !.s = s, !.issued = TRUE,
                                     !.prev = activeTimer[s], !.open = FindOpen(logs, User),
                                     !.rows = Len(logs)]
    /\ UNCHANGED <<activeTimer, logs, now, ticks, svars, dvars>>

\* mutant of StartWhileRunning: the handler has no guard on activeTimer
StartRegardless(s, name) ==
    /\ tops < MaxTimerOps
    /\ activeTimer[s] # Null
    /\ loading' = [loading EXCEPT ![s] = TRUE]
    /\ tpending' = tpending \cup
          { TNumbered([NoCall EXCEPT !.kind = "insert", !.s = s, !.name = name,
                                     !.start = now]) }
    /\ tops' = tops + 1
    /\ tlast' = [NoTimerEvent EXCEPT !.kind = "startIgnored", !.s = s,
                                     !.prev = activeTimer[s], !.open = FindOpen(logs, User),
                                     !.rows = Len(logs)]
    /\ UNCHANGED <<activeTimer, logs, now, ticks, svars, dvars>>

\* handleStartTimer, activeTimer is set: if (!user || activeTimer) return
StartWhileRunning(s, name) ==
    /\ tops < MaxTimerOps
    /\ activeTimer[s] # Null
    /\ tops' = tops + 1
    /\ tlast' = [NoTimerEvent EXCEPT !.kind = "startIgnored", !.s = s,
                                     !.prev = activeTimer[s], !.open = FindOpen(logs, User),
                                     !.rows = Len(logs)]
    /\ UNCHANGED <<activeTimer, loading, logs, tpending, now, ticks, svars, dvars>>

\* the insert succeeded: setActiveTimer with the row's id and the local startTime
InsertOk(c) ==
    /\ c.kind = "insert"
    /\ ~UniqueViolation(logs, User)
    /\ LET id == Len(logs) + 1
       IN  /\ logs' = Append(logs, TimeLog(id, c.name, c.start))
           /\ activeTimer' = [activeTimer EXCEPT ![c.s] = Active(id, c.name, c.start)]
    /\ loading' = [loading EXCEPT ![c.s] = FALSE]
    /\ tpending' = tpending \ {c}
    /\ tlast' = [NoTimerEvent EXCEPT !.kind = "insertOk", !.s = c.s,
                                     !.prev = activeTimer[c.s], !.open = FindOpen(logs, User),
                                     !.rows = Len(logs)]
    /\ UNCHANGED <<now, ticks, tops, svars, dvars>>

\* the insert hit the unique index: alert('A timer is already running for this
\* task.'); await loadActiveTimer()
InsertConflict(c) ==
    /\ c.kind = "insert"
    /\ UniqueViolation(logs, User)
    /\ tpending' = (tpending \ {c}) \cup {LoadActiveCall(c.s, "conflict")}
    /\ tlast' = [NoTimerEvent EXCEPT !.kind = "insertConflict", !.s = c.s,
                                     !.signal = "conflict", !.issued = TRUE,
                                     !.prev = activeTimer[c.s], !.open = FindOpen(logs, User),
                                     !.rows = Len(logs)]
    /\ UNCHANGED <<activeTimer, loading, logs, now, ticks, tops, svars, dvars>>

\* mutant of InsertFail: every failure is handled as a conflict
InsertFailRequeries(c) ==
    /\ c.kind = "insert"
    /\ tpending' = (tpending \ {c}) \cup {LoadActiveCall(c.s, "conflict")}
    /\ tlast' = [NoTimerEvent EXCEPT !.kind = "insertFail", !.s = c.s, !.signal = "failed",
                                     !.prev = activeTimer[c.s], !.open = FindOpen(logs, User),
                                     !.rows = Len(logs)]
    /\ UNCHANGED <<activeTimer, loading, logs, now, ticks, tops, svars, dvars>>

\* the insert failed otherwise: alert('Failed to start timer.')
InsertFail(c) ==
    /\ c.kind = "insert"
    /\ loading' = [loading EXCEPT ![c.s] = FALSE]
    /\ tpending' = tpending \ {c}
    /\ tlast' = [NoTimerEvent EXCEPT !.kind = "insertFail", !.s = c.s, !.signal = "failed",
                                     !.prev = activeTimer[c.s], !.open = FindOpen(logs, User),
                                     !.rows = Len(logs)]
    /\ UNCHANGED <<activeTimer, logs, now, ticks, tops, svars, dvars>>

\* loadActiveTimer delivered: if (data) setActiveTimer(...); after the conflict
\* branch the finally of handleStartTimer follows
LoadActive(c) ==
    /\ c.kind = "loadActive"
    /\ LET data == FindOpen(logs, User)
       IN  /\ activeTimer' =
                 IF data # Null
                 THEN [activeTimer EXCEPT
                          ![c.s] = Active(data[1].id, data[1].subtask_name, data[1].start_time)]
                 ELSE activeTimer
           /\ tlast' = [NoTimerEvent EXCEPT !.kind = "loadActive", !.s = c.s,
                                            !.after = c.after, !.prev = activeTimer[c.s],
                                            !.open = FindOpen(logs, User),
                                     !.rows = Len(logs)]
    /\ loading' = IF c.after = "conflict" THEN [loading EXCEPT ![c.s] = FALSE] ELSE loading
    /\ tpending' = tpending \ {c}
    /\ UNCHANGED <<logs, now, ticks, tops, svars, dvars>>

\* loadActiveTimer's query failed: data is null, nothing is set
LoadActiveFail(c) ==
    /\ c.kind = "loadActive"
    /\ loading' = IF c.after = "conflict" THEN [loading EXCEPT ![c.s] = FALSE] ELSE loading
    /\ tpending' = tpending \ {c}
    /\ tlast' = [NoTimerEvent EXCEPT !.kind = "loadActiveFail", !.s = c.s, !.after = c.after,
                                     !.prev = activeTimer[c.s], !.open = FindOpen(logs, User),
                                     !.rows = Len(logs)]
    /\ UNCHANGED <<activeTimer, logs, now, ticks, tops, svars, dvars>>

\* handleStopTimer up to the await
StopTimer(s) ==
    /\ tops < MaxTimerOps
    /\ activeTimer[s] # Null
    /\ loading' = [loading EXCEPT ![s] = TRUE]
    /\ tpending' = tpending \cup
          { TNumbered([NoCall EXCEPT !.kind = "close", !.s = s, !.id = activeTimer[s][1].id,
                                     !.end = now,
                                     !.dur = DurationSeconds(activeTimer[s][1].startTime, now)]) }
    /\ tops' = tops + 1
    /\ tlast' = [NoTimerEvent EXCEPT !.kind = "stop", !.s = s, !.issued = TRUE,
                                     !.prev = activeTimer[s], !.open = FindOpen(logs, User),
                                     !.rows = Len(logs)]
    /\ UNCHANGED <<activeTimer, logs, now, ticks, svars, dvars>>

\* the update succeeded: setActiveTimer(null); loadTimeLogs(); loadActiveTimer()
CloseOk(c) ==
    /\ c.kind = "close"
    /\ logs' = CloseRow(logs, c.id, c.end, c.dur)
    /\ activeTimer' = [activeTimer EXCEPT ![c.s] = Null]
    /\ loading' = [loading EXCEPT ![c.s] = FALSE]
    /\ tpending' = (tpending \ {c}) \cup {LoadActiveCall(c.s, "stop")}
    /\ tlast' = [NoTimerEvent EXCEPT !.kind = "closeOk", !.s = c.s, !.id = c.id,
                                     !.prev = activeTimer[c.s], !.open = FindOpen(logs, User),
                                     !.rows = Len(logs)]
    /\ UNCHANGED <<now, ticks, tops, svars, dvars>>

\* mutant of CloseFail: the failure also drops the running timer
CloseFailDropsTimer(c) ==
    /\ c.kind = "close"
    /\ activeTimer' = [activeTimer EXCEPT ![c.s] = Null]
    /\ loading' = [loading EXCEPT ![c.s] = FALSE]
    /\ tpending' = tpending \ {c}
    /\ tlast' = [NoTimerEvent EXCEPT !.kind = "closeFail", !.s = c.s, !.id = c.id, !.signal = "failed",
                                     !.prev = activeTimer[c.s], !.open = FindOpen(logs, User),
                                     !.rows = Len(logs)]
    /\ UNCHANGED <<logs, now, ticks, tops, svars, dvars>>

\* the update failed: alert('Failed to stop timer.')
CloseFail(c) ==
    /\ c.kind = "close"
    /\ loading' = [loading EXCEPT ![c.s] = FALSE]
    /\ tpending' = tpending \ {c}
    /\ tlast' = [NoTimerEvent EXCEPT !.kind = "closeFail", !.s = c.s, !.id = c.id, !.signal = "failed",
                                     !.prev = activeTimer[c.s], !.open = FindOpen(logs, User),
                                     !.rows = Len(logs)]
    /\ UNCHANGED <<activeTimer, logs, now, ticks, tops, svars, dvars>>

\* time passes
Tick(d) ==
    /\ ticks < MaxTicks
    /\ now' = now + d
    /\ ticks' = ticks + 1
    /\ UNCHANGED <<activeTimer, loading, logs, tpending, tops, tlast, svars, dvars>>

\* the timer components at rest (for the specifications of the subtask list)
TimerParked ==
    /\ activeTimer = [s \in Sessions |-> Null]
    /\ loading = [s \in Sessions |-> FALSE]
    /\ logs = <<>>
    /\ tpending = {}
    /\ now = 0
    /\ ticks = 0
    /\ tops = 0
    /\ tlast = NoTimerEvent
    /\ timeLogs = <<>>
    /\ shown = <<>>

\* ------------------------------------------------------- initial states
InitLists ==
    { <<Subtask(1, "a", FALSE)>>,
      <<Subtask(1, "a", TRUE), Subtask(2, "b", FALSE)>> }

\* what the input of the editor holds when Add is pressed: nothing, white
\* space only, a text, a text with white space around it
NewItemTexts ==
    { <<>>, <<" ">>, <<"\t", " ">>, <<"\n">>, <<"x">>, <<" ", "x", "\n">> }

\* the characters String.prototype.trim() removes
TrimSpace == {" ", "\t", "\n"}

\* newItemText.trim()
RECURSIVE TrimStart(_)
TrimStart(chars) ==
    IF chars # <<>> /\ Head(chars) \in TrimSpace THEN TrimStart(Tail(chars)) ELSE chars

RECURSIVE TrimEnd(_)
TrimEnd(chars) ==
    IF chars # <<>> /\ chars[Len(chars)] \in TrimSpace
    THEN TrimEnd(SubSeq(chars, 1, Len(chars) - 1)) ELSE chars

\* mutant of Trim: white space is kept
KeepSpace(chars) == chars

Trim(chars) == TrimEnd(TrimStart(chars))

\* the title value of a text (titles are held as strings)
TitleOf(chars) ==
    CASE chars = <<>> -> ""
      [] chars = <<" ">> -> " "
      [] chars = <<"\t", " ">> -> "\t "
      [] chars = <<"\n">> -> "\n"
      [] chars = <<"x">> -> "x"
      [] chars = <<" ", "x", "\n">> -> " x\n"

\* the texts that reach handleAddSubtask
AddTexts == {TitleOf(Trim(t)) : t \in {u \in NewItemTexts : Trim(u) # <<>>}}
EditTexts == {"y"}

\* The modal is open and its two mount effects (loadStatuses: setStatuses(data),
\* loadSubtasks) have delivered; later loads come from the effect on [isOpen, task].
Init ==
    /\ db \in InitLists
    /\ dbStatuses = StdStatuses
    /\ dbStatus = dbStatuses[1].id
    /\ subtasks = db
    /\ progress = calculateProgress(db)
    /\ statuses = dbStatuses
    /\ taskStatus = dbStatus
    /\ pending = {}
    /\ nops = 0
    /\ refreshDue = FALSE
    /\ chosen = None
    /\ last = NoEvent
    /\ TimerParked

\* ------------------------------------------------------- loading
\* mutant of LoadOk: the fetched rows are added to the local list
LoadMerges(c) ==
    /\ c.kind = "load"
    /\ subtasks' = subtasks \o db
    /\ progress' = calculateProgress(subtasks \o db)
    /\ pending' = pending \ {c}
    /\ last' = [NoEvent EXCEPT !.kind = "loadOk", !.before = subtasks]
    /\ UNCHANGED <<statuses, taskStatus, db, dbStatus, dbStatuses, nops, refreshDue, chosen, tvars, dvars>>

\* loadSubtasks, data present: setSubtasks(data); calculateProgress(data)
LoadOk(c) ==
    /\ c.kind = "load"
    /\ subtasks' = db
    /\ progress' = calculateProgress(db)
    /\ pending' = pending \ {c}
    /\ last' = [NoEvent EXCEPT !.kind = "loadOk", !.before = subtasks]
    /\ UNCHANGED <<statuses, taskStatus, db, dbStatus, dbStatuses, nops, refreshDue, chosen, tvars, dvars>>

\* loadSubtasks, the fetch failed (data is null): setSubtasks([]); setProgress(0)
LoadFail(c) ==
    /\ c.kind = "load"
    /\ subtasks' = <<>>
    /\ progress' = 0
    /\ pending' = pending \ {c}
    /\ last' = [NoEvent EXCEPT !.kind = "loadFail", !.before = subtasks]
    /\ UNCHANGED <<statuses, taskStatus, db, dbStatus, dbStatuses, nops, refreshDue, chosen, tvars, dvars>>

\* ------------------------------------------------------- add
\* handleAddSubtask up to the await
Add(text) ==
    /\ nops < MaxOps
    /\ LET n           == nops + 1
           tempId      == TempId
           updatedList == Append(subtasks, Subtask(tempId, text, FALSE))
       IN  /\ subtasks' = updatedList
           /\ progress' = calculateProgress(updatedList)
           /\ pending' = pending \cup
                 { Numbered([NoOp EXCEPT !.kind = "add", !.id = tempId, !.text = text,
                                         !.list = updatedList, !.cst = taskStatus,
                                         !.csts = statuses]) }
           /\ nops' = n
           /\ last' = [NoEvent EXCEPT !.kind = "add", !.id = tempId,
                                      !.before = subtasks]
    /\ UNCHANGED <<statuses, taskStatus, db, dbStatus, dbStatuses, refreshDue, chosen, tvars, dvars>>

\* the insert succeeded: replace the temporary entry, then checkAutoStatusUpdate(updatedList)
AddOk(c) ==
    /\ c.kind = "add"
    /\ LET data == Subtask(ServerId, c.text, FALSE)
           ev   == [NoEvent EXCEPT !.kind = "addOk", !.id = c.id, !.text = c.text,
                                   !.before = subtasks,
                                   !.quiet = (pending = {c} /\ subtasks = c.list),
                                   !.ent = <<data>>]
       IN  /\ db' = Append(db, data)
           /\ subtasks' = MapReplace(subtasks, c.id, data)
           /\ pending' = (pending \ {c}) \cup
                            PushOf(checkAutoStatusUpdate(c.list, c.csts, c.cst))
           /\ last' = Inferred(ev, c.list, c.csts, c.cst)
    /\ UNCHANGED <<progress, statuses, taskStatus, dbStatus, dbStatuses, nops, refreshDue, chosen, tvars, dvars>>

\* the insert failed: remove the temporary entry, then checkAutoStatusUpdate(updatedList)
AddFail(c) ==
    /\ c.kind = "add"
    /\ LET ev == [NoEvent EXCEPT !.kind = "addFail", !.id = c.id, !.text = c.text,
                                 !.before = subtasks,
                                 !.quiet = (pending = {c} /\ subtasks = c.list)]
       IN  /\ subtasks' = FilterOut(subtasks, c.id)
           /\ pending' = (pending \ {c}) \cup
                            PushOf(checkAutoStatusUpdate(c.list, c.csts, c.cst))
           /\ last' = Inferred(ev, c.list, c.csts, c.cst)
    /\ UNCHANGED <<progress, statuses, taskStatus, db, dbStatus, dbStatuses, nops, refreshDue, chosen, tvars, dvars>>

\* SubtaskListEditor.handleAddItem: if (!newItemText.trim()) return;
\* onAdd(newItemText.trim())
handleAddItem(newItemText) ==
    IF Trim(newItemText) = <<>>
    THEN /\ last' = [NoEvent EXCEPT !.kind = "addEmpty", !.before = subtasks]
         /\ UNCHANGED <<subtasks, progress, statuses, taskStatus, db, dbStatus, dbStatuses,
                        pending, nops, refreshDue, chosen, tvars, dvars>>
    ELSE Add(TitleOf(Trim(newItemText)))

\* ------------------------------------------------------- toggle
\* handleToggleSubtask up to the await
Toggle(id, isCompleted) ==
    /\ nops < MaxOps
    /\ LET n           == nops + 1
           updatedList == MapCompleted(subtasks, id, isCompleted)
           ev          == [NoEvent EXCEPT !.kind = "toggle", !.id = id,
                                          !.val = isCompleted, !.before = subtasks]
       IN  /\ subtasks' = updatedList
           /\ progress' = calculateProgress(updatedList)
           /\ pending' = pending \cup
                 { Numbered([NoOp EXCEPT !.kind = "toggle", !.id = id, !.val = isCompleted,
                                         !.ent = FindById(subtasks, id)]) }
                 \cup PushOf(checkAutoStatusUpdate(updatedList, statuses, taskStatus))
           /\ nops' = n
           /\ last' = Inferred(ev, updatedList, statuses, taskStatus)
    /\ UNCHANGED <<statuses, taskStatus, db, dbStatus, dbStatuses, refreshDue, chosen, tvars, dvars>>

\* the update succeeded
ToggleOk(c) ==
    /\ c.kind = "toggle"
    /\ db' = MapCompleted(db, c.id, c.val)
    /\ pending' = pending \ {c}
    /\ last' = [NoEvent EXCEPT !.kind = "toggleOk", !.id = c.id,
                               !.val = c.val, !.before = subtasks, !.ent = c.ent]
    /\ UNCHANGED <<subtasks, progress, statuses, taskStatus, dbStatus, dbStatuses, nops, refreshDue, chosen, tvars, dvars>>

\* mutant of ToggleFail: the rollback runs the inference again
ToggleFailReinfers(c) ==
    /\ c.kind = "toggle"
    /\ subtasks' = MapCompleted(subtasks, c.id, ~c.val)
    /\ pending' = (pending \ {c}) \cup
                     PushOf(checkAutoStatusUpdate(subtasks', statuses, taskStatus))
    /\ last' = [NoEvent EXCEPT !.kind = "toggleFail", !.id = c.id,
                               !.val = c.val, !.before = subtasks, !.ent = c.ent]
    /\ UNCHANGED <<progress, statuses, taskStatus, db, dbStatus, dbStatuses, nops, refreshDue, chosen, tvars, dvars>>

\* the update failed: prev.map(t => t.id === id ? { ...t, is_completed: !isCompleted } : t)
ToggleFail(c) ==
    /\ c.kind = "toggle"
    /\ subtasks' = MapCompleted(subtasks, c.id, ~c.val)
    /\ pending' = pending \ {c}
    /\ last' = [NoEvent EXCEPT !.kind = "toggleFail", !.id = c.id,
                               !.val = c.val, !.before = subtasks, !.ent = c.ent]
    /\ UNCHANGED <<progress, statuses, taskStatus, db, dbStatus, dbStatuses, nops, refreshDue, chosen, tvars, dvars>>

\* ------------------------------------------------------- delete
\* handleDeleteSubtask up to the await
Delete(id) ==
    /\ nops < MaxOps
    /\ LET n           == nops + 1
           deletedTask == FindById(subtasks, id)
           updatedList == FilterOut(subtasks, id)
           ev          == [NoEvent EXCEPT !.kind = "delete", !.id = id,
                                          !.before = subtasks, !.ent = deletedTask]
       IN  /\ subtasks' = updatedList
           /\ progress' = calculateProgress(updatedList)
           /\ pending' = pending \cup
                 { Numbered([NoOp EXCEPT !.kind = "delete", !.id = id, !.ent = deletedTask]) }
                 \cup PushOf(checkAutoStatusUpdate(updatedList, statuses, taskStatus))
           /\ nops' = n
           /\ last' = Inferred(ev, updatedList, statuses, taskStatus)
    /\ UNCHANGED <<statuses, taskStatus, db, dbStatus, dbStatuses, refreshDue, chosen, tvars, dvars>>

\* the delete succeeded
DeleteOk(c) ==
    /\ c.kind = "delete"
    /\ db' = FilterOut(db, c.id)
    /\ pending' = pending \ {c}
    /\ last' = [NoEvent EXCEPT !.kind = "deleteOk", !.id = c.id,
                               !.before = subtasks, !.ent = c.ent]
    /\ UNCHANGED <<subtasks, progress, statuses, taskStatus, dbStatus, dbStatuses, nops, refreshDue, chosen, tvars, dvars>>

\* the delete failed: if (deletedTask) setSubtasks(prev => [...prev, deletedTask])
DeleteFail(c) ==
    /\ c.kind = "delete"
    /\ subtasks' = IF c.ent # <<>> THEN Reappend(subtasks, c.ent) ELSE subtasks
    /\ pending' = pending \ {c}
    /\ last' = [NoEvent EXCEPT !.kind = "deleteFail", !.id = c.id,
                               !.before = subtasks, !.ent = c.ent]
    /\ UNCHANGED <<progress, statuses, taskStatus, db, dbStatus, dbStatuses, nops, refreshDue, chosen, tvars, dvars>>

\* ------------------------------------------------------- rename
\* mutant of UpdateText: the rename also runs checkAutoStatusUpdate
UpdateTextInfers(id, text) ==
    /\ nops < MaxOps
    /\ LET updatedList == MapTitle(subtasks, id, text)
           ev          == [NoEvent EXCEPT !.kind = "text", !.id = id, !.text = text,
                                          !.before = subtasks]
       IN  /\ subtasks' = updatedList
           /\ pending' = pending \cup
                 { Numbered([NoOp EXCEPT !.kind = "text", !.id = id, !.text = text]) }
                 \cup PushOf(checkAutoStatusUpdate(updatedList, statuses, taskStatus))
           /\ nops' = nops + 1
           /\ last' = Inferred(ev, updatedList, statuses, taskStatus)
    /\ UNCHANGED <<progress, statuses, taskStatus, db, dbStatus, dbStatuses, refreshDue, chosen, tvars, dvars>>

\* handleUpdateSubtaskText up to the await
UpdateText(id, text) ==
    /\ nops < MaxOps
    /\ LET n == nops + 1
       IN  /\ subtasks' = MapTitle(subtasks, id, text)
           /\ pending' = pending \cup
                 { Numbered([NoOp EXCEPT !.kind = "text", !.id = id, !.text = text]) }
           /\ nops' = n
           /\ last' = [NoEvent EXCEPT !.kind = "text", !.id = id, !.text = text,
                                      !.before = subtasks]
    /\ UNCHANGED <<progress, statuses, taskStatus, db, dbStatus, dbStatuses, refreshDue, chosen, tvars, dvars>>

\* the title update succeeded
TextOk(c) ==
    /\ c.kind = "text"
    /\ db' = MapTitle(db, c.id, c.text)
    /\ pending' = pending \ {c}
    /\ last' = [NoEvent EXCEPT !.kind = "textOk", !.id = c.id, !.before = subtasks]
    /\ UNCHANGED <<subtasks, progress, statuses, taskStatus, dbStatus, dbStatuses, nops, refreshDue, chosen, tvars, dvars>>

\* mutant of TextFail: the failure puts the stored title back
TextFailReverts(c) ==
    /\ c.kind = "text"
    /\ subtasks' = IF FindById(db, c.id) = <<>> THEN subtasks
                   ELSE MapTitle(subtasks, c.id, FindById(db, c.id)[1].title)
    /\ pending' = pending \ {c}
    /\ last' = [NoEvent EXCEPT !.kind = "textFail", !.id = c.id, !.text = c.text,
                               !.before = subtasks]
    /\ UNCHANGED <<progress, statuses, taskStatus, db, dbStatus, dbStatuses, nops, refreshDue, chosen, tvars, dvars>>

\* the title update failed: console.error only
TextFail(c) ==
    /\ c.kind = "text"
    /\ pending' = pending \ {c}
    /\ last' = [NoEvent EXCEPT !.kind = "textFail", !.id = c.id, !.text = c.text,
                               !.before = subtasks]
    /\ UNCHANGED <<subtasks, progress, statuses, taskStatus, db, dbStatus, dbStatuses, nops, refreshDue, chosen, tvars, dvars>>

\* ------------------------------------------------------- status
\* the status <select>: onChange={(e) => handleUpdateStatus(e.target.value)}
SelectStatus(statusId) ==
    /\ nops < MaxOps
    /\ statusId \in IdsOf(statuses)
    /\ statusId # taskStatus          \* onChange: another option than value={task.status_id}
    /\ pending' = pending \cup {Numbered([NoOp EXCEPT !.kind = "status", !.id = statusId,
                                                       !.text = "select"])}
    /\ nops' = nops + 1
    /\ last' = [NoEvent EXCEPT !.kind = "select", !.id = statusId,
                               !.before = subtasks]
    /\ UNCHANGED <<subtasks, progress, statuses, taskStatus, db, dbStatus, dbStatuses, refreshDue, chosen, tvars, dvars>>

\* handleUpdateStatus after the await, the update applied: onUpdate()
StatusOk(c) ==
    /\ c.kind = "status"
    /\ dbStatus' = c.id
    /\ refreshDue' = TRUE
    /\ pending' = pending \ {c}
    /\ chosen' = IF c.text = "select" THEN c.id ELSE None
    /\ last' = [NoEvent EXCEPT !.kind = "statusOk", !.id = c.id, !.before = subtasks]
    /\ UNCHANGED <<subtasks, progress, statuses, taskStatus, db, dbStatuses, nops, tvars, dvars>>

\* handleUpdateStatus after the await, the update rejected (the client returns
\* the error, it does not throw): onUpdate() all the same
StatusFail(c) ==
    /\ c.kind = "status"
    /\ refreshDue' = TRUE
    /\ pending' = pending \ {c}
    /\ last' = [NoEvent EXCEPT !.kind = "statusFail", !.id = c.id, !.before = subtasks]
    /\ UNCHANGED <<subtasks, progress, statuses, taskStatus, db, dbStatus, dbStatuses, nops, chosen, tvars, dvars>>

\* The parent reacts to onUpdate() by passing a re-fetched task: task.status_id
\* is the stored one, and the effect on [isOpen, task] calls loadSubtasks again.
ParentRefresh ==
    /\ refreshDue
    /\ taskStatus' = dbStatus
    /\ refreshDue' = FALSE
    /\ pending' = pending \cup { [NoOp EXCEPT !.kind = "load"] }
    /\ last' = [NoEvent EXCEPT !.kind = "refresh", !.before = subtasks]
    /\ UNCHANGED <<subtasks, progress, statuses, db, dbStatus, dbStatuses, nops, chosen, tvars, dvars>>

\* ------------------------------------------------------- specification
\* ids a handler can be called with: those of the rows shown. The value a
\* child passes to onToggle is !task.is_completed of the row it rendered, which
\* can lag the state (a rollback lands between render and click), so the
\* handler is called with either value.  A handler can also be called with
\* the id of a row that is no longer in the list: one removed a moment ago,
\* its delete still in flight.
StaleIds == {c.id : c \in Calls("delete")} \ IdsOf(subtasks)

CallIds == IdsOf(subtasks) \cup StaleIds

Next ==
    \/ \E c \in pending : LoadOk(c)
    \/ \E c \in pending : LoadFail(c)
    \/ \E text \in AddTexts : Add(text)
    \/ \E c \in pending : AddOk(c)
    \/ \E c \in pending : AddFail(c)
    \/ \E id \in CallIds, v \in BOOLEAN : Toggle(id, v)
    \/ \E c \in pending : ToggleOk(c)
    \/ \E c \in pending : ToggleFail(c)
    \/ \E id \in CallIds : Delete(id)
    \/ \E c \in pending : DeleteOk(c)
    \/ \E c \in pending : DeleteFail(c)
    \/ \E id \in CallIds, text \in EditTexts : UpdateText(id, text)
    \/ \E c \in pending : TextOk(c)
    \/ \E c \in pending : TextFail(c)
    \/ \E s \in IdsOf(dbStatuses) : SelectStatus(s)
    \/ \E c \in pending : StatusOk(c)
    \/ \E c \in pending : StatusFail(c)
    \/ ParentRefresh

Spec == Init /\ [][Next]_vars

\* ------------------------------------------------------- inference alone
\* checkAutoStatusUpdate as a function of its inputs: every subtask list up
\* to MaxItems, every status list, every task.status_id.
InferLists ==
    UNION { { [i \in 1..k |-> Subtask(i, "a", f[i])] : f \in [1..k -> BOOLEAN] } :
            k \in 0..MaxItems }

InferInit ==
    /\ subtasks \in InferLists
    /\ statuses \in StatusLists
    /\ taskStatus \in IdsOf(statuses) \cup {None}
    /\ db = subtasks
    /\ progress = calculateProgress(subtasks)
    /\ dbStatuses = statuses
    /\ dbStatus = taskStatus
    /\ pending = {}
    /\ nops = 0
    /\ refreshDue = FALSE
    /\ chosen = None
    /\ last = NoEvent
    /\ TimerParked

\* checkAutoStatusUpdate(subtasks)
RunInference ==
    /\ last.kind = "init"
    /\ pending' = pending \cup PushOf(checkAutoStatusUpdate(subtasks, statuses, taskStatus))
    /\ last' = Inferred([NoEvent EXCEPT !.kind = "infer", !.before = subtasks],
                        subtasks, statuses, taskStatus)
    /\ UNCHANGED <<subtasks, progress, statuses, taskStatus, db, dbStatus, dbStatuses,
                   nops, refreshDue, chosen, tvars, dvars>>

InferNext ==
    \/ RunInference
    \/ \E c \in pending : StatusOk(c)

InferSpec == InferInit /\ [][InferNext]_vars

\* ------------------------------------------------------- adding through the editor
\* The add path as the user drives it: the editor's handleAddItem in front of
\* handleAddSubtask, and the calls it leaves in flight.
EditorNext ==
    \/ \E newItemText \in NewItemTexts : handleAddItem(newItemText)
    \/ \E c \in pending : AddOk(c)
    \/ \E c \in pending : AddFail(c)
    \/ \E c \in pending : StatusOk(c)
    \/ \E c \in pending : StatusFail(c)

EditorSpec == Init /\ [][EditorNext]_vars

\* ------------------------------------------------------- loading alone
\* The effect on [isOpen, task] has called loadSubtasks: the local list is
\* whatever an earlier run left, the store holds any list up to MaxItems.
LoadInit ==
    /\ subtasks \in InferLists
    /\ progress = calculateProgress(subtasks)
    /\ db \in InferLists
    /\ pending = { [NoOp EXCEPT !.kind = "load"] }
    /\ statuses = StdStatuses
    /\ dbStatuses = StdStatuses
    /\ taskStatus = StdStatuses[1].id
    /\ dbStatus = StdStatuses[1].id
    /\ nops = 0
    /\ refreshDue = FALSE
    /\ chosen = None
    /\ last = NoEvent
    /\ TimerParked

LoadNext ==
    \/ \E c \in pending : LoadOk(c)
    \/ \E c \in pending : LoadFail(c)

LoadSpec == LoadInit /\ [][LoadNext]_vars

\* ------------------------------------------------------- timer specification
\* the subtask list at rest
ListParked ==
    /\ subtasks = <<>>
    /\ progress = 0
    /\ statuses = <<>>
    /\ taskStatus = None
    /\ db = <<>>
    /\ dbStatus = None
    /\ dbStatuses = <<>>
    /\ pending = {}
    /\ nops = 0
    /\ refreshDue = FALSE
    /\ chosen = None
    /\ last = NoEvent

\* Both sessions have mounted (the effect has called loadActiveTimer); the
\* store holds no row, or one the user left running earlier.
TimerInit ==
    /\ logs \in { <<>>, <<TimeLog(1, "a", 0)>> }
    /\ activeTimer = [s \in Sessions |-> Null]
    /\ loading = [s \in Sessions |-> FALSE]
    /\ tpending = {LoadActiveCall(s, "mount") : s \in Sessions}
    /\ now = 0
    /\ ticks = 0
    /\ tops = 0
    /\ tlast = NoTimerEvent
    /\ timeLogs = <<>>
    /\ shown = <<>>
    /\ ListParked

TimerNext ==
    \/ \E s \in Sessions, name \in TimerNames : StartTimer(s, name)
    \/ \E s \in Sessions, name \in TimerNames : StartWhileRunning(s, name)
    \/ \E c \in tpending : InsertOk(c)
    \/ \E c \in tpending : InsertConflict(c)
    \/ \E c \in tpending : InsertFail(c)
    \/ \E c \in tpending : LoadActive(c)
    \/ \E c \in tpending : LoadActiveFail(c)
    \/ \E s \in Sessions : StopTimer(s)
    \/ \E c \in tpending : CloseOk(c)
    \/ \E c \in tpending : CloseFail(c)
    \/ \E d \in TickSteps : Tick(d)

TimerSpec == TimerInit /\ [][TimerNext]_vars

\* ======================================================= time display
\* (SubtaskTimer.tsx render, as session s1 sees it)

\* seconds logged on a closed entry
LoggedSeconds == {0, 65}

\* titles of the rendered subtasks, and texts a subtask is renamed to
DisplayTitles == {"a", "b"}
RenameTexts == {"b", "y"}

\* a closed row: start at 0, stopped after d whole seconds
ClosedLog(id, name, d) ==
    [TimeLog(id, name, 0) EXCEPT !.end_time = Some(d * 1000), !.duration_seconds = Some(d)]

\* the rows a store can hold at position id
LogRows(id) ==
    {TimeLog(id, name, 0) : name \in DisplayTitles}
      \cup {ClosedLog(id, name, d) : name \in DisplayTitles, d \in LoggedSeconds}

\* stores of up to MaxLogs rows, at most one of them open
DisplayStores ==
    UNION { {rows \in [1..n -> UNION {LogRows(id) : id \in 1..n}] :
                /\ \A i \in 1..n : rows[i].id = i
                /\ Cardinality(OpenRows(rows, User)) <= 1} : n \in 0..MaxLogs }

\* the subtasks prop: one or two open subtasks
DisplayLists ==
    {<<Subtask(1, t, FALSE)>> : t \in DisplayTitles}
      \cup {<<Subtask(1, t, FALSE), Subtask(2, u, FALSE)>> : t \in DisplayTitles, u \in DisplayTitles}

\* .order('created_at', { ascending: false })
NewestFirst(rows) == [k \in 1..Len(rows) |-> rows[Len(rows) + 1 - k]]

\* log.duration_seconds as a condition: neither null nor 0
Truthy(d) == d # Null /\ d[1] # 0

\* the reduce of getTotalTimeForSubtask from position k on
RECURSIVE TotalFrom(_, _, _)
TotalFrom(tl, subtaskName, k) ==
    IF k > Len(tl) THEN 0
    ELSE (IF tl[k].subtask_name = subtaskName /\ Truthy(tl[k].duration_seconds)
          THEN tl[k].duration_seconds[1] ELSE 0) + TotalFrom(tl, subtaskName, k + 1)

\* mutant of getTotalTimeForSubtask: the total of one fixed title
TotalTimeOfA(tl, subtaskName) == TotalFrom(tl, "a", 1)

\* getTotalTimeForSubtask(subtaskName)
getTotalTimeForSubtask(tl, subtaskName) == TotalFrom(tl, subtaskName, 1)

\* subtasks.map(task => ...): isActive and the time shown for each subtask
Render(items, tl, timer, elapsedSeconds) ==
    [k \in DOMAIN items |->
        LET isActive == timer # Null /\ timer[1].subtaskName = items[k].title
        IN  [id |-> items[k].id, isActive |-> isActive,
             time |-> IF isActive THEN elapsedSeconds
                      ELSE getTotalTimeForSubtask(tl, items[k].title)]]

\* the tick effect: Math.floor((new Date() - activeTimer.startTime) / 1000)
Elapsed(timer) == IF timer = Null THEN 0 ELSE DurationSeconds(timer[1].startTime, now)

\* The component is mounted with a list of subtasks; the store holds the
\* user's entries; the guard is Running exactly when one of them is open;
\* loadTimeLogs has not delivered yet.
DisplayInit ==
    /\ logs \in DisplayStores
    /\ subtasks \in DisplayLists
    /\ activeTimer =
          [s \in Sessions |->
              IF s = "s1" /\ FindOpen(logs, User) # Null
              THEN Active(FindOpen(logs, User)[1].id, FindOpen(logs, User)[1].subtask_name,
                          FindOpen(logs, User)[1].start_time)
              ELSE Null]
    /\ now = 65500
    /\ timeLogs = <<>>
    /\ shown = Render(subtasks, timeLogs, activeTimer["s1"], Elapsed(activeTimer["s1"]))
    /\ loading = [s \in Sessions |-> FALSE]
    /\ tpending = {}
    /\ ticks = 0
    /\ tops = 0
    /\ tlast = NoTimerEvent
    /\ progress = calculateProgress(subtasks)
    /\ statuses = <<>>
    /\ taskStatus = None
    /\ db = subtasks
    /\ dbStatus = None
    /\ dbStatuses = <<>>
    /\ pending = {}
    /\ nops = 0
    /\ refreshDue = FALSE
    /\ chosen = None
    /\ last = NoEvent

\* loadTimeLogs delivered: setTimeLogs(data || []), then the render
TimeLogsLoaded ==
    /\ timeLogs' = NewestFirst(logs)
    /\ shown' = Render(subtasks, timeLogs', activeTimer["s1"], Elapsed(activeTimer["s1"]))
    /\ last' = [NoEvent EXCEPT !.kind = "timeLogs", !.before = subtasks]
    /\ UNCHANGED <<subtasks, progress, statuses, taskStatus, db, dbStatus, dbStatuses,
                   pending, nops, refreshDue, chosen, tvars>>

\* loadTimeLogs failed: the catch logs the error, timeLogs stays
TimeLogsFailed ==
    /\ last' = [NoEvent EXCEPT !.kind = "timeLogsFail", !.before = subtasks]
    /\ UNCHANGED <<subtasks, progress, statuses, taskStatus, db, dbStatus, dbStatuses,
                   pending, nops, refreshDue, chosen, tvars, dvars>>

\* the parent renamed a subtask (handleUpdateSubtaskText): a new subtasks
\* prop, then the render
TitleChanged(id, text) ==
    /\ subtasks' = MapTitle(subtasks, id, text)
    /\ shown' = Render(subtasks', timeLogs, activeTimer["s1"], Elapsed(activeTimer["s1"]))
    /\ last' = [NoEvent EXCEPT !.kind = "rename", !.id = id, !.text = text,
                               !.before = subtasks]
    /\ UNCHANGED <<progress, statuses, taskStatus, db, dbStatus, dbStatuses,
                   pending, nops, refreshDue, chosen, tvars, timeLogs>>

DisplayNext ==
    \/ TimeLogsLoaded
    \/ TimeLogsFailed
    \/ \E id \in IdsOf(subtasks), text \in RenameTexts : TitleChanged(id, text)

DisplaySpec == DisplayInit /\ [][DisplayNext]_vars

\* ======================================================= claims
\* the number of completed entries, counted for the claims
DoneIn(items) == Cardinality({i \in DOMAIN items : items[i].is_completed = TRUE})

\* round(100 * completed / total), half up
Rounded(completed, total) ==
    CHOOSE r \in 0..100 : 2 * total * r <= 200 * completed + total
                          /\ 200 * completed + total < 2 * total * (r + 1)

ProgressOf(items) == IF Len(items) > 0 THEN Rounded(DoneIn(items), Len(items)) ELSE 0

\* items without the entries of the given id, in order
Without(items, id) == SelectSeq(items, LAMBDA t : t.id # id)

\* the list an add was called on: the captured updatedList less its last entry
BeforeAdd(updatedList) == SubSeq(updatedList, 1, Len(updatedList) - 1)

\* C1: in every reachable state Progress equals round(100 * completed / total)
\* of the current local list, and 0 when the list is empty.
C1_ProgressIsDerived == progress = ProgressOf(subtasks)

\* C3: after an add whose create succeeded with nothing else in flight, the
\* list is the list the add was called on followed by exactly one entry for
\* the add (its title, not completed, the id the store assigned), and no entry
\* carries the temporary id.
C3_AddConfirmed ==
    (last.kind = "addOk" /\ last.quiet) =>
        LET mine == {i \in DOMAIN subtasks : subtasks[i].title = last.text
                                             /\ subtasks[i].id \in IdsOf(db) \ IdsOf(last.items)}
        IN  /\ Cardinality(mine) = 1
            /\ \A i \in mine : /\ subtasks[i].is_completed = FALSE
                               /\ subtasks[i].id > 0
                               /\ i = Len(subtasks)
            /\ last.id \notin IdsOf(subtasks)
            /\ Without(subtasks, subtasks[Len(subtasks)].id) = BeforeAdd(last.items)

C3_Witness ==
    /\ last.kind = "addOk"
    /\ last.quiet
    /\ Len(subtasks) > 1

\* C4 as stated: after an add whose create failed, the list is the list the
\* add was called on.
C4_AddFailRestoresList ==
    last.kind = "addFail" => subtasks = BeforeAdd(last.items)

\* C4 amended: the rollback of a failed add removes the temporary entry and
\* nothing else from the list as it is when the failure arrives; the list is
\* the one the add was called on when nothing else changed it meanwhile.
C4_AddFailRemovesTemp ==
    last.kind = "addFail" =>
        /\ subtasks = Without(last.before, last.id)
        /\ last.quiet => subtasks = BeforeAdd(last.items)

C4_Witness ==
    /\ last.kind = "addFail"
    /\ last.quiet
    /\ Len(subtasks) > 0

\* C5: a toggle of an id in the list whose update failed leaves the entry's
\* is_completed at the value it had before the call, whatever the new value.
C5_ToggleFailRestores ==
    (last.kind = "toggleFail" /\ last.ent # <<>>) =>
        \A i \in DOMAIN subtasks :
            subtasks[i].id = last.id => subtasks[i].is_completed = last.ent[1].is_completed

\* C6: after a remove whose delete failed, the removed entity is the last
\* element, with the fields it had when removed, and the entries before it
\* are those of the list as it was, in order.
C6_DeleteFailReappends ==
    (last.kind = "deleteFail" /\ last.ent # <<>>) =>
        /\ Len(subtasks) = Len(last.before) + 1
        /\ subtasks[Len(subtasks)] = last.ent[1]
        /\ \A i \in DOMAIN last.before : subtasks[i] = last.before[i]

C6_Witness ==
    /\ last.kind = "deleteFail"
    /\ last.ent # <<>>
    /\ Len(last.before) > 0

\* C7: after the rollback of a failed add and of a failed remove, Progress
\* is that of the rolled-back list.
C7_RollbackRecomputesProgress ==
    last.kind \in {"addFail", "deleteFail"} => progress = ProgressOf(subtasks)

\* C8: on a non-empty list inference targets the not-started class when
\* nothing is completed, the done class when everything is, the in-progress
\* class otherwise; it pushes the first status whose label matches that class
\* (unless the task has it), nothing when no label matches; with To Do(1),
\* In Progress(2), Done(3) and 3 subtasks, 0 / 2 / 3 completed infer 1 / 2 / 3.
C8_InferenceTarget ==
    (last.infer /\ Len(last.items) > 0) =>
        LET total == Len(last.items)
            done  == DoneIn(last.items)
            words == IF done = 0 THEN NotStartedWords
                     ELSE IF done = total THEN DoneWords ELSE InProgressWords
            hits  == {i \in DOMAIN last.sts : Test(words, last.sts[i].label)}
            first == CHOOSE i \in hits : \A j \in hits : i <= j
        IN  /\ hits = {} => last.pushed = None
            /\ hits # {} =>
                 last.pushed = IF last.sts[first].id = last.prop THEN None
                               ELSE last.sts[first].id
            /\ (last.sts = StdStatuses /\ total = 3 /\ done \in {0, 2, 3}) =>
                 LET inferred == IF done = 0 THEN 1 ELSE done
                 IN  last.pushed = IF last.prop = inferred THEN None ELSE inferred

C8_Witness ==
    /\ last.infer
    /\ last.sts = StdStatuses
    /\ Len(last.items) = 3
    /\ DoneIn(last.items) = 2
    /\ last.pushed = 2

\* C9: inference pushes a status only when it differs from the status the
\* task has, also when the task got that status from an earlier push.
C9_PushOnlyOnChange ==
    (last.infer /\ last.pushed # None) =>
        /\ last.pushed # last.prop
        /\ last.pushed # last.stored

\* ------------------------------------------------------- timer claims
\* rows of the store with no end time
OpenEntries == {i \in DOMAIN logs : logs[i].end_time = <<>>}

\* the store's open entry, if any
OpenEntry == IF OpenEntries = {} THEN <<>> ELSE <<logs[CHOOSE i \in OpenEntries : TRUE]>>

\* the guard state that reflects a row of the store
Reflecting(row) == <<[id |-> row.id, subtaskName |-> row.subtask_name, startTime |-> row.start_time]>>

\* C2: under any interleaving of start and stop calls of the sessions of one
\* user on one task, the store never holds more than one entry with
\* end_time = null for that (task, user).
C2_AtMostOneOpenEntry == Cardinality(OpenEntries) <= 1

\* C2 witness: a start reached the store while an entry was open, was turned
\* down, and the open entry is still the only one.
C2_Witness ==
    /\ tlast.kind = "insertConflict"
    /\ tlast.rows = Len(logs)
    /\ Cardinality(OpenEntries) = 1

\* C10 as stated: of two start() calls for one (task, user), from the same
\* session or from two sessions, the second never creates a second open entry,
\* its caller's guard ends Running on the store's open entry, and its caller
\* receives the "timer already running" signal.
C10_SecondStartGetsConflict ==
    /\ Cardinality(OpenEntries) <= 1
    /\ tlast.kind = "startIgnored" =>
          /\ tlast.signal = "conflict"
          /\ activeTimer[tlast.s] # <<>>
    /\ tlast.kind = "insertConflict" => tlast.signal = "conflict"
    /\ (tlast.kind \in {"loadActive", "loadActiveFail"} /\ tlast.after = "conflict") =>
          /\ OpenEntry # <<>>
          /\ activeTimer[tlast.s] = Reflecting(OpenEntry[1])

\* C10 amended: the second start never creates a second open entry.  When it
\* reaches the store while an entry is open it is rejected, creates nothing,
\* leaves the caller's guard as it was and signals "timer already running";
\* the re-query that follows sets the guard to Running on the store's open
\* entry when it finds one and leaves the guard as it was otherwise.  A start
\* made while the caller's guard is Running returns without a create and
\* without a signal, the guard unchanged.
C10_DoubleStart ==
    /\ Cardinality(OpenEntries) <= 1
    /\ tlast.kind = "insertOk" => tlast.open = <<>>
    /\ tlast.kind = "insertConflict" =>
          /\ tlast.open # <<>>
          /\ tlast.signal = "conflict"
          /\ Len(logs) = tlast.rows
          /\ activeTimer[tlast.s] = tlast.prev
    /\ (tlast.kind = "loadActive" /\ tlast.after = "conflict") =>
          activeTimer[tlast.s] =
             IF OpenEntry # <<>> THEN Reflecting(OpenEntry[1]) ELSE tlast.prev
    /\ (tlast.kind = "loadActiveFail" /\ tlast.after = "conflict") =>
          activeTimer[tlast.s] = tlast.prev
    /\ tlast.kind = "startIgnored" =>
          /\ tlast.signal = "none"
          /\ ~tlast.issued
          /\ Len(logs) = tlast.rows
          /\ activeTimer[tlast.s] = tlast.prev
          /\ tlast.prev # <<>>

\* C10 witness: the second of two sessions was turned down and its re-query
\* has put its guard on the entry the first session opened.
C10_Witness ==
    /\ tlast.kind = "loadActive"
    /\ tlast.after = "conflict"
    /\ tlast.prev = <<>>
    /\ OpenEntry # <<>>
    /\ activeTimer[tlast.s] = Reflecting(OpenEntry[1])
    /\ \E s \in Sessions \ {tlast.s} : activeTimer[s] = activeTimer[tlast.s]
    /\ Len(logs) = 1
    /\ logs[1].start_time > 0

\* rows of the store with the given id
EntriesWithId(id) == {i \in DOMAIN logs : logs[i].id = id}

\* whole seconds between two instants in milliseconds
ElapsedSeconds(from, to) == CHOOSE d \in 0..(to - from) : d * 1000 <= to - from /\ to - from < (d + 1) * 1000

\* C11: a start from Idle followed by a successful stop after d elapsed
\* seconds leaves exactly one entry for that start, closed, with end_time set
\* and duration_seconds = d, and the guard is Idle with no tracked entry
\* (stated when the close of the entry the guard tracks is confirmed).
C11_StartStopRoundTrip ==
    (tlast.kind = "closeOk" /\ tlast.prev # <<>> /\ tlast.prev[1].id = tlast.id) =>
       /\ activeTimer[tlast.s] = <<>>
       /\ Cardinality(EntriesWithId(tlast.prev[1].id)) = 1
       /\ \A i \in EntriesWithId(tlast.prev[1].id) :
             /\ logs[i].end_time # <<>>
             /\ logs[i].start_time = tlast.prev[1].startTime
             /\ logs[i].end_time[1] >= logs[i].start_time
             /\ logs[i].end_time[1] <= now
             /\ logs[i].duration_seconds =
                   <<ElapsedSeconds(logs[i].start_time, logs[i].end_time[1])>>

\* C11 witness: "b" was started at 0 and stopped 65.5 seconds later; its entry
\* is closed with 65 seconds and the guard is Idle.
C11_Witness ==
    /\ tlast.kind = "closeOk"
    /\ activeTimer[tlast.s] = <<>>
    /\ Len(logs) = 1
    /\ logs[1].subtask_name = "b"
    /\ logs[1].start_time = 0
    /\ logs[1].end_time = <<65500>>
    /\ logs[1].duration_seconds = <<65>>

\* C12: when the remote close issued by stop() fails, the guard keeps the
\* entry id, label and start time it tracked, a failure is reported, and the
\* store is unchanged (the entry stays open).
C12_StopFailKeepsRunning ==
    tlast.kind = "closeFail" =>
       /\ activeTimer[tlast.s] = tlast.prev
       /\ tlast.signal = "failed"
       /\ Len(logs) = tlast.rows
       /\ OpenEntry = tlast.open

\* C12 witness: a stop has failed, the guard is Running on the entry that is
\* still the store's open one.
C12_Witness ==
    /\ tlast.kind = "closeFail"
    /\ activeTimer[tlast.s] # <<>>
    /\ OpenEntry # <<>>
    /\ activeTimer[tlast.s] = Reflecting(OpenEntry[1])
    /\ now > OpenEntry[1].start_time

\* C13: when the remote create issued by start() fails for a reason other
\* than a uniqueness violation, no active timer is recorded (every guard is
\* as it was), no re-query for an open entry is issued, the store is
\* unchanged, and a generic failure is signalled.
C13_StartFailStaysIdle ==
    [][ (tlast'.kind = "insertFail" /\ \E c \in tpending \ tpending' : c.kind = "insert") =>
           /\ activeTimer' = activeTimer
           /\ logs' = logs
           /\ tpending' \subseteq tpending
           /\ tlast'.signal = "failed" ]_vars

\* C13 witness: a start has failed with no entry open in the store; the
\* guard is Idle, no re-query is in flight, the generic failure was signalled.
C13_Witness ==
    /\ tlast.kind = "insertFail"
    /\ tlast.signal = "failed"
    /\ tlast.open = <<>>
    /\ activeTimer[tlast.s] = <<>>
    /\ logs = <<>>
    /\ \A c \in tpending : c.kind # "loadActive"

\* C14: start() invoked while the guard is Running issues no remote create
\* and leaves the guard's entry id, label and start time (and the store)
\* unchanged.
C14_StartWhileRunningIsNoOp ==
    [][ (tlast'.kind = "startIgnored" /\ tops' # tops) =>
           /\ activeTimer[tlast'.s] # <<>>
           /\ activeTimer' = activeTimer
           /\ tpending' = tpending
           /\ logs' = logs ]_vars

\* C14 witness: a start was made in a session whose guard is Running on the
\* store's open entry; no create is in flight.
C14_Witness ==
    /\ tlast.kind = "startIgnored"
    /\ activeTimer[tlast.s] # <<>>
    /\ OpenEntry # <<>>
    /\ activeTimer[tlast.s] = Reflecting(OpenEntry[1])
    /\ \A c \in tpending : c.kind # "insert"
    /\ Len(logs) = 1

\* C15: an entry is written exactly once after its creation: once it has been
\* closed (end_time and duration_seconds set), no later step changes it.
C15_ClosedEntryImmutable ==
    [][ \A i \in DOMAIN logs : logs[i].end_time # <<>> => logs'[i] = logs[i] ]_vars

\* the sum of duration_seconds over a set of positions of a list of entries
RECURSIVE SumOver(_, _)
SumOver(tl, S) ==
    IF S = {} THEN 0
    ELSE LET i == CHOOSE x \in S : TRUE
         IN  tl[i].duration_seconds[1] + SumOver(tl, S \ {i})

\* the sum over the closed entries logged under a title
ClosedSum(tl, title) ==
    SumOver(tl, {i \in DOMAIN tl : tl[i].end_time # <<>> /\ tl[i].subtask_name = title})

\* the running timer of session s1 is on this title
RunningOn(title) == activeTimer["s1"] # <<>> /\ activeTimer["s1"][1].subtaskName = title

\* C16: for a subtask that is not the active one, the time shown is the sum
\* of duration_seconds over the loaded closed entries whose subtask_name is
\* the subtask's current title, whatever subtask they were logged for; after
\* a rename the entries under the old title no longer count toward it.
C16_TotalByCurrentTitle ==
    /\ DOMAIN shown = DOMAIN subtasks
    /\ \A k \in DOMAIN subtasks :
          /\ shown[k].id = subtasks[k].id
          /\ ~RunningOn(subtasks[k].title) =>
                /\ ~shown[k].isActive
                /\ shown[k].time = ClosedSum(timeLogs, subtasks[k].title)

\* C16 witness: a subtask titled "a" with 65 seconds logged under "a" was
\* renamed to "y", is not active, and shows 0; the entries are still loaded.
C16_Witness ==
    /\ last.kind = "rename"
    /\ last.text = "y"
    /\ ClosedSum(timeLogs, "a") = 65
    /\ \E k \in DOMAIN subtasks :
          /\ subtasks[k].id = last.id
          /\ last.before[k].title = "a"
          /\ subtasks[k].title = "y"
          /\ ~RunningOn("y")
          /\ shown[k].time = 0

\* the ids of a list of subtasks
IdsIn(items) == {items[i].id : i \in DOMAIN items}

\* C17: toggleCompletion, remove and updateText called with an id that is not
\* in the local list, and an add confirmation, add rollback or toggle
\* rollback arriving for an id no longer in the list, leave the list as it was.
C17_AbsentIdIsNoOp ==
    (/\ last.kind \in {"toggle", "delete", "text", "addOk", "addFail", "toggleFail"}
     /\ last.id \notin IdsIn(last.before)) => subtasks = last.before

\* C17 witness: the rollback of a failed toggle arrived after its entry was
\* removed; the list, not empty, is as it was.
C17_Witness ==
    /\ last.kind = "toggleFail"
    /\ last.id \notin IdsIn(last.before)
    /\ subtasks = last.before
    /\ subtasks # <<>>

\* C18: load replaces the local list with exactly the fetched list and sets
\* Progress to the value recomputed from it; when the fetch fails the local
\* list is empty and Progress is 0.
C18_LoadReplaces ==
    /\ last.kind = "loadOk" => (subtasks = db /\ progress = ProgressOf(db))
    /\ last.kind = "loadFail" => (subtasks = <<>> /\ progress = 0)

\* C18 witness: a local list was replaced by a different fetched list of
\* three entries, two of them completed: Progress is 67.
C18_Witness ==
    /\ last.kind = "loadOk"
    /\ last.before # <<>>
    /\ last.before # db
    /\ Len(subtasks) = 3
    /\ progress = 67

\* titles that are empty or white space only
BlankTitles == {"", " ", "\t ", "\n"}

\* C19: add with empty or white-space-only text changes nothing in the
\* local list (nor in Progress) and issues no remote create: such an add is
\* a step that leaves list, Progress, calls in flight and store as they were,
\* and no entry and no create in flight ever carries such a text.
C19_EmptyAddIsNoOp ==
    /\ [](/\ \A i \in DOMAIN subtasks : subtasks[i].title \notin BlankTitles
          /\ \A c \in pending : c.kind = "add" => c.text \notin BlankTitles)
    /\ [][ (last'.kind = "addEmpty" /\ last' # last) =>
              /\ subtasks' = subtasks
              /\ progress' = progress
              /\ pending' = pending
              /\ db' = db ]_vars

\* C19 witness: an empty add was made on a list of two entries while an
\* earlier add was in flight; that add's call is the only create in flight
\* and the list holds its entry only.
C19_Witness ==
    /\ last.kind = "addEmpty"
    /\ subtasks = last.before
    /\ Len(subtasks) = 2
    /\ Cardinality({c \in pending : c.kind = "add"}) = 1
    /\ nops = 1

\* C20: updateText(id, text) sets the entry's title to text at once and
\* changes nothing else (is_completed, membership and order stay); when the
\* remote title update fails the list is left as it is, the title still text.
C20_UpdateTextNoRollback ==
    /\ last.kind = "text" =>
          /\ Len(subtasks) = Len(last.before)
          /\ \A i \in DOMAIN subtasks :
                /\ subtasks[i].id = last.before[i].id
                /\ subtasks[i].is_completed = last.before[i].is_completed
                /\ subtasks[i].title =
                      IF subtasks[i].id = last.id THEN last.text ELSE last.before[i].title
    /\ last.kind = "textFail" => subtasks = last.before

\* C20 witness: the update of the title of a completed entry to "y" has
\* failed; the store still has the old title, the list has "y", the entry is
\* still completed.
C20_Witness ==
    /\ last.kind = "textFail"
    /\ last.text = "y"
    /\ \E i \in DOMAIN subtasks :
          /\ subtasks[i].id = last.id
          /\ subtasks[i].title = "y"
          /\ subtasks[i].is_completed
          /\ \E j \in DOMAIN db : db[j].id = last.id /\ db[j].title = "a"

\* C21: for add, Status Inference is evaluated on the post-optimistic-update
\* list, and its status push issued, in the step that makes the optimistic
\* update, before the remote create is confirmed or rejected, and not when
\* the create resolves.
C21_AddInfersBeforeConfirmation ==
    [][ /\ (last'.kind = "add" /\ nops' # nops
              /\ checkAutoStatusUpdate(subtasks', statuses, taskStatus) # None) =>
               \E c \in pending' \ pending :
                  /\ c.kind = "status"
                  /\ c.id = checkAutoStatusUpdate(subtasks', statuses, taskStatus)
        /\ (last'.kind \in {"addOk", "addFail"} /\ pending' # pending) =>
               \A c \in pending' \ pending : c.kind # "status" ]_vars

\* the status calls a step has added to those in flight
Pushed(before, after) == {c \in after \ before : c.kind = "status"}

\* C22: toggleCompletion runs Status Inference once, on the optimistic list,
\* in the step that makes the optimistic update (the push it causes is issued
\* there and is the only one); the confirmation and the rollback of a toggle
\* issue no push and change no status.
C22_ToggleInfersOnce ==
    [][ /\ (last'.kind = "toggle" /\ nops' # nops) =>
              LET target == checkAutoStatusUpdate(subtasks', statuses, taskStatus)
              IN  /\ target = None => Pushed(pending, pending') = {}
                  /\ target # None =>
                        /\ Cardinality(Pushed(pending, pending')) = 1
                        /\ \A c \in Pushed(pending, pending') : c.id = target
        /\ (last'.kind \in {"toggleOk", "toggleFail"} /\ pending' # pending) =>
              /\ Pushed(pending, pending') = {}
              /\ taskStatus' = taskStatus
              /\ dbStatus' = dbStatus ]_vars

\* C22 witness: a toggle that completed the only subtask pushed Done, the
\* push was applied, the toggle failed and was rolled back: the subtask is
\* open, the task stays Done and no push is in flight.
C22_Witness ==
    /\ last.kind = "toggleFail"
    /\ last.val = TRUE
    /\ Len(subtasks) = 1
    /\ ~subtasks[1].is_completed
    /\ dbStatus = 3
    /\ pending = {}

\* C23: when add's create succeeds, the entry that replaces the temporary
\* entry has the title and is_completed the temporary entry had at the moment
\* of replacement (also when it was toggled or renamed meanwhile).
C23_ConfirmKeepsLocalFields ==
    last.kind = "addOk" =>
       \A i \in DOMAIN last.before :
          last.before[i].id = last.id =>
             /\ i \in DOMAIN subtasks
             /\ subtasks[i].title = last.before[i].title
             /\ subtasks[i].is_completed = last.before[i].is_completed

\* ------------------------------------------------------- C24
\* the status whose label falls in the class inferred from `items`, if any
InferredStatus(items, sts) == checkAutoStatusUpdate(items, sts, None)

\* C24: when the stored status is one the user picked in the <select> and it
\* is not the status of the class inferred from the list, a run of the
\* inference by add, toggleCompletion or remove on a non-empty list pushes
\* the inferred status, if a status of that class exists.
C24_InferenceOverridesChoice ==
    ( /\ last.kind \in {"addOk", "addFail", "toggle", "delete"}
      /\ last.infer
      /\ chosen # None
      /\ dbStatus = chosen
      /\ last.items # <<>>
      /\ InferredStatus(last.items, last.sts) # None
      /\ InferredStatus(last.items, last.sts) # chosen )
    => last.pushed = InferredStatus(last.items, last.sts)

\* ------------------------------------------------------- C25
\* C25 as stated: every mutation handler (add, toggleCompletion, remove and
\* updateText) runs a Status Inference evaluation.
C25_EveryMutationInfers ==
    last.kind \in {"addOk", "addFail", "toggle", "delete", "text"} => last.infer

\* C25: add, toggleCompletion and remove each run a Status Inference
\* evaluation (toggleCompletion and remove in the handler, add in the step
\* that resolves its create); updateText runs none, neither in the handler
\* nor when its update resolves, and so issues no status update.
C25_MutationsInferExceptText ==
    /\ last.kind \in {"addOk", "addFail", "toggle", "delete"} => last.infer
    /\ last.kind \in {"text", "textOk", "textFail"} =>
          /\ ~last.infer
          /\ last.pushed = None

\* a rename of a listed entry, at a moment when an evaluation would push
C25_Witness ==
    /\ last.kind = "text"
    /\ subtasks # last.before
    /\ checkAutoStatusUpdate(subtasks, statuses, taskStatus) # None
    /\ Calls("status") = {}

\* ------------------------------------------------------- C26
\* C26 as stated: a mutation that leaves the local list empty, a failed add
\* on an empty list included, issues no status update.
C26_EmptyListNoPush ==
    /\ (last.kind \in {"toggle", "delete"} /\ subtasks = <<>>) => last.pushed = None
    /\ (last.kind = "addFail" /\ Len(last.items) = 1 /\ subtasks = <<>>)
          => last.pushed = None

\* C26: an evaluation that is given an empty list (total = 0), as the one
\* run by removing the last subtask, issues no status update.  The
\* evaluation of a failed add is given the list with the added entry.
C26_EmptyCandidateNoPush ==
    /\ (last.infer /\ last.items = <<>>) => last.pushed = None
    /\ last.kind = "addFail" => (last.infer /\ last.items # <<>>)

\* the last subtask is removed while the task's status is not the one of the
\* not-started class, which exists
C26_Witness ==
    /\ last.kind = "delete"
    /\ last.before # <<>>
    /\ subtasks = <<>>
    /\ last.infer
    /\ last.items = <<>>
    /\ FindTable[last.sts].notStarted \notin {None, last.prop}

\* ------------------------------------------------------- C27
\* C27: in every reachable state no two entries of the local subtask list
\* have the same id.
C27_UniqueIds ==
    \A i, j \in DOMAIN subtasks : subtasks[i].id = subtasks[j].id => i = j

\* ------------------------------------------------------- C28
\* the classes whose regular expression a label matches
ClassesOf(label) ==
    {c \in {"notStarted", "inProgress", "done"} :
        Test(CASE c = "notStarted" -> NotStartedWords
               [] c = "inProgress" -> InProgressWords
               [] OTHER            -> DoneWords, label)}

\* C28: no label of the statuses an evaluation works on matches the patterns
\* of more than one class, and so no status is the one inference selects for
\* two of the three completion situations.
C28_ClassesDisjoint ==
    last.infer =>
       /\ \A i \in DOMAIN last.sts : Cardinality(ClassesOf(last.sts[i].label)) <= 1
       /\ LET t == FindTable[last.sts]
          IN  /\ t.notStarted # None => t.notStarted \notin {t.inProgress, t.done}
              /\ t.inProgress # None => t.inProgress # t.done

\* ------------------------------------------------------- every call succeeds
\* The controller with a store that accepts every call.
OkNext ==
    \/ \E c \in pending : LoadOk(c)
    \/ \E text \in AddTexts : Add(text)
    \/ \E c \in pending : AddOk(c)
    \/ \E id \in CallIds, v \in BOOLEAN : Toggle(id, v)
    \/ \E c \in pending : ToggleOk(c)
    \/ \E id \in CallIds : Delete(id)
    \/ \E c \in pending : DeleteOk(c)
    \/ \E id \in CallIds, text \in EditTexts : UpdateText(id, text)
    \/ \E c \in pending : TextOk(c)
    \/ \E s \in IdsOf(dbStatuses) : SelectStatus(s)
    \/ \E c \in pending : StatusOk(c)
    \/ ParentRefresh

OkSpec == Init /\ [][OkNext]_vars

\* ------------------------------------------------------- every mutation fails
\* The controller with a store that rejects every create, update of
\* is_completed and delete, and still serves loads and status updates.
FailNext ==
    \/ \E c \in pending : LoadOk(c)
    \/ \E text \in AddTexts : Add(text)
    \/ \E c \in pending : AddFail(c)
    \/ \E id \in CallIds, v \in BOOLEAN : Toggle(id, v)
    \/ \E c \in pending : ToggleFail(c)
    \/ \E id \in CallIds : Delete(id)
    \/ \E c \in pending : DeleteFail(c)
    \/ \E s \in IdsOf(dbStatuses) : SelectStatus(s)
    \/ \E c \in pending : StatusOk(c)
    \/ ParentRefresh

FailSpec == Init /\ [][FailNext]_vars

\* ------------------------------------------------------- C29
\* the entries of a list, without their order
EntriesOf(items) == {items[i] : i \in DOMAIN items}

\* C29: when no call is in flight and every call issued so far succeeded, the
\* local list and the store hold the same subtasks: same ids, titles and
\* is_completed values, and as many entries.
C29_SettledMatchesStore ==
    pending = {} =>
       /\ EntriesOf(subtasks) = EntriesOf(db)
       /\ Len(subtasks) = Len(db)

\* ------------------------------------------------------- C30
\* id and is_completed of the entries of a list
CompletionOf(items) == {<<items[i].id, items[i].is_completed>> : i \in DOMAIN items}

\* C30: when no call is in flight and every add, toggleCompletion and remove
\* issued since the last load failed, the local list has the ids of the
\* store and the same is_completed value for each.
C30_AllFailedMatchesStore ==
    pending = {} => CompletionOf(subtasks) = CompletionOf(db)

\* ------------------------------------------------------- no manual status change
\* The controller with a store that accepts every call, driven by adds,
\* toggles and removes only: the status changes by pushes of the inference.
AutoNext ==
    \/ \E c \in pending : LoadOk(c)
    \/ \E text \in AddTexts : Add(text)
    \/ \E c \in pending : AddOk(c)
    \/ \E id \in CallIds, v \in BOOLEAN : Toggle(id, v)
    \/ \E c \in pending : ToggleOk(c)
    \/ \E id \in CallIds : Delete(id)
    \/ \E c \in pending : DeleteOk(c)
    \/ \E c \in pending : StatusOk(c)
    \/ ParentRefresh

AutoSpec == Init /\ [][AutoNext]_vars

\* ------------------------------------------------------- C31
\* C31: after at least one add, toggle or remove, when no call is in flight,
\* every call succeeded, the local list is not empty and a status of the
\* inferred class exists, the stored status_id of the task is the status
\* inferred from the local list.
C31_StoredStatusIsInferred ==
    ( /\ pending = {}
      /\ nops > 0
      /\ subtasks # <<>>
      /\ InferredStatus(subtasks, statuses) # None )
    => dbStatus = InferredStatus(subtasks, statuses)

\* ------------------------------------------------------- C32
\* C32: whenever the guard is Running, some rendered subtask row is the
\* active one (its title is the timer's label), so the stop control is shown.
C32_RunningOffersStop ==
    activeTimer["s1"] # Null => \E k \in DOMAIN shown : shown[k].isActive

\* ------------------------------------------------------- C33
\* C33: whenever the guard of a session is Running, the store holds an open
\* entry of the user for the task, and its id is the id the guard tracks.
C33_RunningHasOpenEntry ==
    \A s \in Sessions :
        activeTimer[s] # Null =>
           /\ FindOpen(logs, User) # Null
           /\ FindOpen(logs, User)[1].id = activeTimer[s][1].id

C35_DurationIsStoredInterval ==
    \A i \in DOMAIN logs :
        logs[i].end_time # Null =>
           /\ logs[i].duration_seconds # Null
           /\ logs[i].duration_seconds[1] = (logs[i].end_time[1] - logs[i].start_time) \div 1000

\* an entry that was open at mount is closed by the one operation so far (the
\* stop of a session that adopted it), after a time with a fraction of a second
C35_Witness ==
    /\ tlast.kind = "closeOk"
    /\ tops = 1
    /\ logs # <<>>
    /\ logs[1].end_time # Null
    /\ (logs[1].end_time[1] - logs[1].start_time) % 1000 # 0
    /\ logs[1].duration_seconds = Some(65)

====
